---- MODULE Spec2Model ----
(***************************************************************************)
(* A model of the docker client binding (package docker): the request      *)
(* executor newRequest, the synchronous operations built on it, and the    *)
(* two streaming operations GetEvents and ContainerLogs with their         *)
(* producer goroutine, signal watcher goroutine and consumer.              *)
(*                                                                         *)
(* Spec        the synchronous operations, one call after the other.       *)
(* StreamSpec  one stream: producer, watcher, consumer, signal delivery.   *)
(* FairStreamSpec  StreamSpec on short bodies, with the fairness the Go    *)
(*             scheduler gives runnable goroutines.                        *)
(***************************************************************************)
EXTENDS Integers, Sequences, FiniteSets, TLC

VARIABLES
    \* ---- synchronous operations (the caller's goroutine) ----
    sop,        \* the API operation being executed, "idle" when none
    cur,        \* the non-composite operation whose body is executing
    spc,        \* position in cur: "idle", "request", "decode", "close", "ret"
    sargs,      \* arguments of cur: [name, container, hostConfig]
    nr,         \* what the last newRequest call returned to cur
    closeQ,     \* the Close calls cur still has to run, in the order it runs them
    sres,       \* what sop returned: [val, err]
    subres,     \* what cur returned: [val, err]
    conns,      \* connections dialed during this API call: [open, closes, bodyCloses, returned]
    closeLog,   \* the Close calls executed during this API call: <<conn index, "body"|"conn">>
    reqs,       \* the newRequest calls made during this API call: [method, uri, body]
    nOpen,      \* connections of the process that are dialed and not closed
    nCalls,     \* API calls made so far
    \* ---- streaming operations, per stream ----
    st,         \* st[s]: the state of stream s (see StreamIdle)
    proc,       \* the process: "running", "exit0", "panic", "killed"
    \* ---- ParseURL ----
    url,        \* the connection string, as its pieces (see UrlPieces)
    parsed      \* what ParseURL(url) returned: [done, proto, addr]

syncVars   == <<sop, cur, spc, sargs, nr, closeQ, sres, subres, conns, closeLog, reqs, nOpen, nCalls>>
streamVars == <<st, proc>>
parseVars  == <<url, parsed>>
vars       == <<sop, cur, spc, sargs, nr, closeQ, sres, subres, conns, closeLog, reqs, nOpen, nCalls, st, proc,
                url, parsed>>

----------------------------------------------------------------------------
(* Bounds of the model *)

MaxCalls == 2

\* units in a response body (all bodies up to this length are tried)
MaxUnits == 3

\* units in the long well-formed body that fills the channel
BurstLen == 101

\* the count of logged decode errors stops here
MaxLogged == 2

\* units of a response body when several streams are open
MultiUnits == 1

\* pieces in a connection string (all strings up to this length are tried)
MaxUrlLen == 7

----------------------------------------------------------------------------
(* Values *)

Nil == "nil"

\* a value json.Marshal rejects (a channel, a func)
Unserializable == "chan"

\* container names and identifiers; "%zz" is an invalid URL escape
Names == {"web", "%zz"}

Ids == {"id1", ""}

HostConfigs == {Nil, "hc1", Unserializable}

SpecKeys == {"Name", "Image", "HostConfig"}

SpecValues(k) ==
    CASE k = "Name" -> {"foo"}
      [] k = "Image" -> {"busybox", Unserializable}
      [] k = "HostConfig" -> {"hc1"}

\* the container specifications: map[string]interface{}
ContainerSpecs ==
    UNION { { f \in [K -> UNION {SpecValues(k) : k \in K}] : \A k \in K : f[k] \in SpecValues(k) }
            : K \in SUBSET SpecKeys }

Statuses == {200, 201, 204, 400, 404, 406, 409, 500, 418, 302}

NoErr == [kind |-> Nil, code |-> 0]

Err(k) == [kind |-> k, code |-> 0]

StatusErr(code) == [kind |-> "status", code |-> code]

\* request bodies (interface{}): a map, or a plain value (nil included)
MapBody(m) == [t |-> "map", m |-> m]

ValBody(v) == [t |-> "val", v |-> v]

\* given: the container specification as the caller passed it (container is the
\* same map as the operation changes it)
NoArgs == [name |-> Nil, container |-> <<>>, given |-> <<>>, hostConfig |-> Nil,
           force |-> FALSE, volumes |-> FALSE]

NoNr == [stream |-> FALSE, conn |-> 0, err |-> NoErr]

NoRes == [val |-> Nil, err |-> NoErr]

----------------------------------------------------------------------------
(* The request executor *)

\* json.Marshal(body): fails on a value it cannot serialize
Marshals(body) ==
    IF body.t = "map"
    THEN \A k \in DOMAIN body.m : body.m[k] # Unserializable
    ELSE body.v # Unserializable

\* http.NewRequest parses the URI: an invalid escape in the path is an error
UriParses(uri) == \A i \in 1..Len(uri.path) : uri.path[i] # "%zz"

\* the map literal of isOkStatus
codes == [c \in {200, 201, 204, 400, 404, 500, 409, 406} |-> c \in {200, 201, 204}]

isOkStatusDenyList(code) == ~(code \in DOMAIN codes /\ ~codes[code])

\* a key the map lacks reads as the zero value, false
isOkStatus(code) == IF code \in DOMAIN codes THEN codes[code] ELSE FALSE

newConn(dialOk) ==
    IF dialOk THEN [conn |-> TRUE, err |-> NoErr] ELSE [conn |-> FALSE, err |-> Err("dial")]

\* newRequest dialing before it encodes the body and builds the request
newRequestDialFirst(method, uri, body, dialOk, doOk, status, next) ==
    IF ~newConn(dialOk).conn
    THEN [stream |-> FALSE, conn |-> 0, err |-> newConn(dialOk).err, opened |-> FALSE, status |-> 0]
    ELSE IF ~Marshals(body)
    THEN [stream |-> FALSE, conn |-> 0, err |-> Err("encoding"), opened |-> TRUE, status |-> 0]
    ELSE IF ~UriParses(uri)
    THEN [stream |-> FALSE, conn |-> 0, err |-> Err("url"), opened |-> TRUE, status |-> 0]
    ELSE IF ~doOk
    THEN [stream |-> FALSE, conn |-> 0, err |-> Err("transport"), opened |-> TRUE, status |-> 0]
    ELSE IF ~isOkStatus(status)
    THEN [stream |-> FALSE, conn |-> 0, err |-> StatusErr(status), opened |-> TRUE,
          status |-> status]
    ELSE [stream |-> TRUE, conn |-> next, err |-> NoErr, opened |-> TRUE, status |-> status]

\* newRequest(method, uri, body) against a daemon that accepts the dial or not
\* (dialOk), completes the exchange or not (doOk) and answers with `status`.
\* next is the index the connection gets when one is dialed.
\*   stream, conn, err: the three results (conn = 0 is nil)
\*   opened: net.Dial succeeded, so a connection exists
\*   status: the status code newRequest read, 0 when it got no response
newRequest(method, uri, body, dialOk, doOk, status, next) ==
    IF ~Marshals(body)
    THEN [stream |-> FALSE, conn |-> 0, err |-> Err("encoding"), opened |-> FALSE, status |-> 0]
    ELSE IF ~UriParses(uri)
    THEN [stream |-> FALSE, conn |-> 0, err |-> Err("url"), opened |-> FALSE, status |-> 0]
    ELSE IF ~newConn(dialOk).conn
    THEN [stream |-> FALSE, conn |-> 0, err |-> newConn(dialOk).err, opened |-> FALSE, status |-> 0]
    ELSE IF ~doOk
    THEN [stream |-> FALSE, conn |-> 0, err |-> Err("transport"), opened |-> TRUE, status |-> 0]
    ELSE IF ~isOkStatus(status)
    THEN [stream |-> FALSE, conn |-> 0, err |-> StatusErr(status), opened |-> TRUE,
          status |-> status]
    ELSE [stream |-> TRUE, conn |-> next, err |-> NoErr, opened |-> TRUE, status |-> status]

----------------------------------------------------------------------------
(* The synchronous operations *)

SyncOps == {"PullImage", "RemoveContainer", "CreateContainer", "StartContainer",
            "RunContainer", "FetchContainer", "FetchAllContainers", "Info"}

FormatBool(b) == IF b THEN "true" ELSE "false"

\* delete(container, key)
Delete(m, key) == [k \in DOMAIN m \ {key} |-> m[k]]

Method(op) ==
    CASE op \in {"PullImage", "CreateContainer", "StartContainer"} -> "POST"
      [] op = "RemoveContainer" -> "DELETE"
      [] OTHER -> "GET"

\* the local `name` of CreateContainer when the URI is formatted: declared, never assigned
CreateName(container) == ""

\* the URI each operation formats, as its path and its query (<<>>: no "?")
Uri(op, a) ==
    CASE op = "PullImage" ->
            [path |-> <<"/images/create">>, query |-> <<"fromImage=", a.name>>]
      [] op = "RemoveContainer" ->
            [path |-> <<"/containers/", a.name>>,
             query |-> <<"force=", FormatBool(a.force), "&volumes=", FormatBool(a.volumes)>>]
      [] op = "CreateContainer" ->
            [path |-> <<"/containers/create">>,
             query |-> IF "Name" \in DOMAIN a.container
                       THEN <<"name=", CreateName(a.container)>> ELSE <<>>]
      [] op = "StartContainer" ->
            [path |-> <<"/containers/", a.name, "/start">>, query |-> <<>>]
      [] op = "FetchContainer" ->
            [path |-> <<"/containers/", a.name, "/json">>, query |-> <<>>]
      [] op = "FetchAllContainers" ->
            [path |-> <<"/containers/json">>, query |-> <<>>]
      [] op = "Info" ->
            [path |-> <<"/info">>, query |-> <<>>]

\* StartContainer sending no host configuration
BodyNoHostConfig(op, a) ==
    CASE op = "CreateContainer" -> MapBody(Delete(a.container, "Name"))
      [] OTHER -> ValBody(Nil)

\* the body each operation hands to newRequest
Body(op, a) ==
    CASE op = "CreateContainer" -> MapBody(Delete(a.container, "Name"))
      [] op = "StartContainer" -> ValBody(a.hostConfig)
      [] OTHER -> ValBody(Nil)

\* what an operation returns when newRequest failed with err
OnRequestError(op, err) ==
    CASE op = "PullImage" -> [val |-> Nil, err |-> NoErr]
      [] op = "CreateContainer" -> [val |-> "", err |-> err]
      [] OTHER -> [val |-> Nil, err |-> err]

Reverse(s) == [i \in 1..Len(s) |-> s[Len(s) + 1 - i]]

Decodes == {"CreateContainer", "FetchContainer", "FetchAllContainers", "Info"}

Inline == {"PullImage", "RemoveContainer"}

ClosePlanNoConn(op) == IF op = "FetchContainer" THEN <<"body">> ELSE <<"body", "conn">>

\* the Close calls of an operation that got a connection, in the order they run:
\* PullImage and RemoveContainer close inline, body then connection; the others
\* defer respBody.Close() then conn.Close(), and deferred calls run last-in first-out
ClosePlan(op) ==
    IF op \in Inline THEN <<"body", "conn">> ELSE Reverse(<<"body", "conn">>)

\* the result of the decode step
OnDecode(op, ok, id) ==
    IF op = "CreateContainer"
    THEN IF ok THEN [val |-> id, err |-> NoErr] ELSE [val |-> "", err |-> Err("decoding")]
    ELSE IF ok THEN [val |-> "value", err |-> NoErr] ELSE [val |-> Nil, err |-> Err("decoding")]

ArgSets(op) ==
    CASE op \in {"PullImage", "FetchContainer"} ->
            { [NoArgs EXCEPT !.name = n] : n \in Names }
      [] op = "RemoveContainer" ->
            { [NoArgs EXCEPT !.name = n, !.force = f, !.volumes = v] :
                n \in Names, f \in BOOLEAN, v \in BOOLEAN }
      [] op \in {"CreateContainer", "RunContainer"} ->
            { [NoArgs EXCEPT !.container = c, !.given = c] : c \in ContainerSpecs }
      [] op = "StartContainer" ->
            { [NoArgs EXCEPT !.name = n, !.hostConfig = h] : n \in Names, h \in HostConfigs }
      [] OTHER -> {NoArgs}

\* an API operation is called
Call(op, a) ==
    /\ spc \in {"idle", "done"}
    /\ nCalls < MaxCalls
    /\ sop' = op
    /\ cur' = IF op = "RunContainer" THEN "CreateContainer" ELSE op
    /\ spc' = "request"
    /\ sargs' = a
    /\ nr' = NoNr
    /\ closeQ' = <<>>
    /\ sres' = NoRes
    /\ subres' = NoRes
    /\ conns' = <<>>
    /\ closeLog' = <<>>
    /\ reqs' = <<>>
    /\ nCalls' = nCalls + 1
    /\ UNCHANGED <<parseVars, nOpen, st, proc>>

\* cur calls newRequest and branches on its error
Request(dialOk, doOk, status) ==
    /\ spc = "request"
    /\ LET r == newRequest(Method(cur), Uri(cur, sargs), Body(cur, sargs),
                           dialOk, doOk, status, Len(conns) + 1)
       IN /\ nr' = [stream |-> r.stream, conn |-> r.conn, err |-> r.err]
          /\ reqs' = Append(reqs, [method |-> Method(cur), uri |-> Uri(cur, sargs),
                                   body |-> Body(cur, sargs), op |-> cur,
                                   opened |-> r.opened, status |-> r.status])
          /\ conns' = IF r.opened
                      THEN Append(conns, [open |-> TRUE, closes |-> 0, bodyCloses |-> 0,
                                          returned |-> r.conn # 0])
                      ELSE conns
          /\ nOpen' = IF r.opened THEN nOpen + 1 ELSE nOpen
          /\ sargs' = IF cur = "CreateContainer"
                      THEN [sargs EXCEPT !.container = Delete(sargs.container, "Name")]
                      ELSE sargs
          /\ IF r.err # NoErr
             THEN /\ subres' = OnRequestError(cur, r.err)
                  /\ closeQ' = <<>>
                  /\ spc' = "ret"
             ELSE /\ subres' = NoRes
                  /\ closeQ' = ClosePlan(cur)
                  /\ spc' = IF cur \in Decodes THEN "decode" ELSE "close"
    /\ UNCHANGED <<parseVars, sop, cur, sres, closeLog, nCalls, st, proc>>

\* json.NewDecoder(respBody).Decode: the response body decodes or not
Decode(ok, id) ==
    /\ spc = "decode"
    /\ subres' = OnDecode(cur, ok, id)
    /\ spc' = "close"
    /\ UNCHANGED <<parseVars, sop, cur, sargs, nr, closeQ, sres, conns, closeLog, reqs, nOpen, nCalls, st, proc>>

\* the next Close call of cur runs
Close ==
    /\ spc = "close"
    /\ closeQ # <<>>
    /\ LET c == nr.conn
           what == Head(closeQ)
       IN /\ conns' = IF what = "conn"
                      THEN [conns EXCEPT ![c].open = FALSE, ![c].closes = @ + 1]
                      ELSE [conns EXCEPT ![c].bodyCloses = @ + 1]
          /\ nOpen' = IF what = "conn" /\ conns[c].open THEN nOpen - 1 ELSE nOpen
          /\ closeLog' = Append(closeLog, <<c, what>>)
    /\ closeQ' = Tail(closeQ)
    /\ spc' = IF Tail(closeQ) = <<>> THEN "ret" ELSE "close"
    /\ UNCHANGED <<parseVars, sop, cur, sargs, nr, sres, subres, reqs, nCalls, st, proc>>

\* RunContainer without the error check after CreateContainer
ReturnStartsAnyway ==
    /\ spc = "ret"
    /\ IF sop = "RunContainer" /\ cur = "CreateContainer"
       THEN /\ cur' = "StartContainer"
            /\ sargs' = [sargs EXCEPT !.name = subres.val,
                                      !.hostConfig = IF "HostConfig" \in DOMAIN sargs.container
                                                     THEN sargs.container["HostConfig"]
                                                     ELSE Nil]
            /\ spc' = "request"
            /\ UNCHANGED sres
       ELSE /\ sres' = IF sop = "RunContainer"
                       THEN [val |-> sargs.name, err |-> subres.err]
                       ELSE subres
            /\ spc' = "done"
            /\ UNCHANGED <<cur, sargs>>
    /\ UNCHANGED <<parseVars, sop, nr, closeQ, subres, conns, closeLog, reqs, nOpen, nCalls, st, proc>>

\* cur returns: to the caller, or to RunContainer which goes on or returns
Return ==
    /\ spc = "ret"
    /\ IF sop = "RunContainer" /\ cur = "CreateContainer" /\ subres.err = NoErr
       THEN /\ cur' = "StartContainer"
            /\ sargs' = [sargs EXCEPT !.name = subres.val,
                                      !.hostConfig = IF "HostConfig" \in DOMAIN sargs.container
                                                     THEN sargs.container["HostConfig"]
                                                     ELSE Nil]
            /\ spc' = "request"
            /\ UNCHANGED sres
       ELSE /\ sres' = IF sop = "RunContainer"
                       THEN IF cur = "CreateContainer"
                            THEN [val |-> "", err |-> subres.err]
                            ELSE [val |-> sargs.name, err |-> subres.err]
                       ELSE subres
            /\ spc' = "done"
            /\ UNCHANGED <<cur, sargs>>
    /\ UNCHANGED <<parseVars, sop, nr, closeQ, subres, conns, closeLog, reqs, nOpen, nCalls, st, proc>>

----------------------------------------------------------------------------
(* The streaming operations *)

AllStreams == {1, 2}

\* make(chan *Event, 100)
EventChanCap == 100

\* make(chan string, 100)
LogChanCap == 100

ChanCap(kind) == IF kind = "events" THEN EventChanCap ELSE LogChanCap

\* Units of a response body, by what reading them does.
\*   events (json.Decoder.Decode into *Event):
\*     "ok"        a JSON value that decodes into an Event
\*     "badtype"   a complete JSON value of another shape: Decode reports the error
\*                 and has consumed the value
\*     "badsyntax" not JSON: the decoder keeps the error and returns it from then on
\*     "truncated" a value cut off by the end of input (last unit only): the decoder
\*                 keeps io.ErrUnexpectedEOF and returns it from then on
\*   logs (bufio.Scanner.Scan):
\*     "ok"        a line with its newline
\*     "partial"   a last line without newline: Scan delivers it
\*     "toolong"   a line longer than the scanner's buffer: Scan returns false
UnitKinds(kind) == IF kind = "events" THEN {"ok", "badtype", "badsyntax"} ELSE {"ok", "toolong"}

LastOnly(kind) == IF kind = "events" THEN "truncated" ELSE "partial"

SeqsOf(S, n) == [1..n -> S]

\* the bodies of at most n units
ShortBodies(kind, n) ==
    UNION { { b \in SeqsOf(UnitKinds(kind) \cup {LastOnly(kind)}, m) :
                \A i \in 1..(m - 1) : b[i] # LastOnly(kind) } : m \in 0..n }

\* a body of n well-formed units
Burst(n) == [i \in 1..n |-> "ok"]

\* the state of a stream before GetEvents or ContainerLogs is called
StreamIdle ==
    [kind |-> "none",       \* "events", "logs"
     id |-> Nil,            \* ContainerLogs: the container id
     tail |-> 0,            \* ContainerLogs: tail
     ch |-> <<>>,           \* the buffered units of eventChan / logChan
     chClosed |-> FALSE,    \* the channel is closed
     closeCalls |-> 0,      \* executions of close(chan), a panicking one included
     sentOnClosed |-> FALSE,\* a send found the channel closed
     ppc |-> "none",        \* the producer goroutine
     pend |-> 0,            \* the unit the producer is publishing
     body |-> <<>>,         \* the response body, as its units
     rpos |-> 0,            \* units the reader has consumed
     decErr |-> "none",     \* the error the json.Decoder keeps
     conn |-> "none",       \* the connection: "open", "closed"
     held |-> FALSE,        \* newRequest returned the connection
     rbody |-> "none",      \* the response stream: "open", "closed"
     notify |-> FALSE,      \* signal.Notify(sigChan, ...) is in effect
     sigChan |-> 0,         \* signals buffered in sigChan (capacity 1)
     wpc |-> "none",        \* the signal watcher goroutine
     recv |-> <<>>,         \* the units the consumer received
     eos |-> FALSE,         \* the consumer's receive reported the channel closed
     nLogged |-> 0]         \* "cannot decode json" lines logged

\* strconv.Itoa for the values used
Itoa(n) == IF n = 5 THEN "5" ELSE "n"

TailStr(tail) == IF tail = -1 THEN "all" ELSE Itoa(tail)

Tails == {-1, 5}

StreamUri(r) ==
    IF r.kind = "events"
    THEN [path |-> <<"/events">>, query |-> <<>>]
    ELSE [path |-> <<"/containers/", r.id, "/logs">>,
          query |-> <<"follow=&stdout=&stderr=&timestamps=&tail=", TailStr(r.tail)>>]

\* dec.Decode(&event) on a decoder that consumed rpos units and keeps decErr;
\* readFails: the read from the connection fails (the connection was closed)
\*   out: "unit", "eof" or "error"; decErr, rpos: the decoder afterwards
DecodeEvent(body, rpos, decErr, readFails) ==
    IF decErr # "none"
    THEN [out |-> "error", unit |-> 0, rpos |-> rpos, decErr |-> decErr]
    ELSE IF readFails
    THEN [out |-> "error", unit |-> 0, rpos |-> rpos, decErr |-> "read"]
    ELSE IF rpos = Len(body)
    THEN [out |-> "eof", unit |-> 0, rpos |-> rpos, decErr |-> "none"]
    ELSE CASE body[rpos + 1] = "ok" ->
                [out |-> "unit", unit |-> rpos + 1, rpos |-> rpos + 1, decErr |-> "none"]
           [] body[rpos + 1] = "badtype" ->
                [out |-> "error", unit |-> 0, rpos |-> rpos + 1, decErr |-> "none"]
           [] body[rpos + 1] = "badsyntax" ->
                [out |-> "error", unit |-> 0, rpos |-> rpos + 1, decErr |-> "syntax"]
           [] body[rpos + 1] = "truncated" ->
                [out |-> "error", unit |-> 0, rpos |-> rpos + 1, decErr |-> "unexpectedEOF"]

\* scanner.Scan() and scanner.Text(); out "eof" is Scan returning false
ScanLine(body, rpos, decErr, readFails) ==
    IF readFails \/ rpos = Len(body) \/ body[rpos + 1] = "toolong"
    THEN [out |-> "eof", unit |-> 0, rpos |-> rpos, decErr |-> "none"]
    ELSE [out |-> "unit", unit |-> rpos + 1, rpos |-> rpos + 1, decErr |-> "none"]

ReadUnit(kind, body, rpos, decErr, readFails) ==
    IF kind = "events"
    THEN DecodeEvent(body, rpos, decErr, readFails)
    ELSE ScanLine(body, rpos, decErr, readFails)

ChanSendFront(q, u) == <<u>> \o q

\* ch <- u on a channel with room
ChanSend(q, u) == Append(q, u)

HasRoomOff(kind, q) == Len(q) <= ChanCap(kind)

\* a send proceeds when the buffer has room
HasRoom(kind, q) == Len(q) < ChanCap(kind)

Min(a, b) == IF a < b THEN a ELSE b

Running == proc = "running"

\* GetEvents(): makes the channel, starts the producer, returns the channel
GetEvents(s) ==
    /\ Running
    /\ st[s].kind = "none"
    /\ st' = [st EXCEPT ![s] = [StreamIdle EXCEPT !.kind = "events", !.ppc = "open"]]
    /\ UNCHANGED <<parseVars, proc, sop, cur, spc, sargs, nr, closeQ, sres, subres, conns, closeLog,
                   reqs, nOpen, nCalls>>

\* ContainerLogs(id, ..., tail)
ContainerLogs(s, id, tail) ==
    /\ Running
    /\ st[s].kind = "none"
    /\ st' = [st EXCEPT ![s] = [StreamIdle EXCEPT !.kind = "logs", !.ppc = "open",
                                                  !.id = id, !.tail = tail]]
    /\ UNCHANGED <<parseVars, proc, sop, cur, spc, sargs, nr, closeQ, sres, subres, conns, closeLog,
                   reqs, nOpen, nCalls>>

\* Open without the error return: the producer goes on to Notify whatever err is
OpenIgnoresError(s, dialOk, doOk, status, b) ==
    /\ Running
    /\ st[s].ppc = "open"
    /\ LET r == newRequest("GET", StreamUri(st[s]), ValBody(Nil), dialOk, doOk, status, s)
       IN /\ st' = [st EXCEPT ![s].conn = IF r.opened THEN "open" ELSE "none",
                              ![s].held = r.conn # 0,
                              ![s].rbody = IF r.stream THEN "open" ELSE "none",
                              ![s].body = IF r.err = NoErr THEN b ELSE <<>>,
                              ![s].ppc = "notify"]
          /\ nOpen' = IF r.opened THEN nOpen + 1 ELSE nOpen
    /\ UNCHANGED <<parseVars, proc, sop, cur, spc, sargs, nr, closeQ, sres, subres, conns, closeLog,
                   reqs, nCalls>>

\* the producer calls newRequest: on an error it prints it and returns (the deferred
\* close is next); the daemon's response body is one of bodies
Open(s, dialOk, doOk, status, b) ==
    /\ Running
    /\ st[s].ppc = "open"
    /\ LET r == newRequest("GET", StreamUri(st[s]), ValBody(Nil), dialOk, doOk, status, s)
       IN /\ st' = [st EXCEPT ![s].conn = IF r.opened THEN "open" ELSE "none",
                              ![s].held = r.conn # 0,
                              ![s].rbody = IF r.stream THEN "open" ELSE "none",
                              ![s].body = IF r.err = NoErr THEN b ELSE <<>>,
                              ![s].ppc = IF r.err = NoErr THEN "notify" ELSE "defer"]
          /\ nOpen' = IF r.opened THEN nOpen + 1 ELSE nOpen
    /\ UNCHANGED <<parseVars, proc, sop, cur, spc, sargs, nr, closeQ, sres, subres, conns, closeLog,
                   reqs, nCalls>>

\* signal.Notify(sigChan, ...) and the start of the watcher goroutine
Notify(s) ==
    /\ Running
    /\ st[s].ppc = "notify"
    /\ st' = [st EXCEPT ![s].notify = TRUE, ![s].wpc = "wait", ![s].ppc = "read"]
    /\ UNCHANGED <<parseVars, proc, syncVars>>

\* one pass of the loop up to the publish: Decode / Scan
Read(s, readFails) ==
    /\ Running
    /\ st[s].ppc = "read"
    /\ readFails => st[s].conn = "closed"
    /\ LET r == ReadUnit(st[s].kind, st[s].body, st[s].rpos, st[s].decErr, readFails)
       IN st' = [st EXCEPT ![s].rpos = r.rpos,
                           ![s].decErr = r.decErr,
                           ![s].pend = r.unit,
                           ![s].ppc = CASE r.out = "unit" -> "send"
                                        [] r.out = "eof" -> "defer"
                                        [] r.out = "error" -> "logerr"]
    /\ UNCHANGED <<parseVars, proc, syncVars>>

\* log.Printf("cannot decode json: %s", err); continue
LogErr(s) ==
    /\ Running
    /\ st[s].ppc = "logerr"
    /\ st' = [st EXCEPT ![s].nLogged = Min(@ + 1, MaxLogged), ![s].ppc = "read"]
    /\ UNCHANGED <<parseVars, proc, syncVars>>

\* eventChan <- event: blocks while the buffer is full, panics on a closed channel
Send(s) ==
    /\ Running
    /\ st[s].ppc = "send"
    /\ IF st[s].chClosed
       THEN /\ st' = [st EXCEPT ![s].sentOnClosed = TRUE, ![s].ppc = "panic"]
            /\ proc' = "panic"
       ELSE /\ HasRoom(st[s].kind, st[s].ch)
            /\ st' = [st EXCEPT ![s].ch = ChanSend(@, st[s].pend), ![s].pend = 0,
                                ![s].ppc = "read"]
            /\ UNCHANGED proc
    /\ UNCHANGED <<parseVars, syncVars>>

\* the producer returns: the deferred close(eventChan) runs
DeferredClose(s) ==
    /\ Running
    /\ st[s].ppc = "defer"
    /\ IF st[s].chClosed
       THEN /\ st' = [st EXCEPT ![s].closeCalls = @ + 1, ![s].ppc = "panic"]
            /\ proc' = "panic"
       ELSE /\ st' = [st EXCEPT ![s].closeCalls = @ + 1, ![s].chClosed = TRUE,
                                ![s].ppc = "done"]
            /\ UNCHANGED proc
    /\ UNCHANGED <<parseVars, syncVars>>

\* the operating system delivers an interrupt, terminate or quit signal: to the
\* sigChan of every stream that called Notify (dropped where one is buffered), or
\* with the default disposition, which kills the process, when none did
Signal ==
    /\ Running
    /\ \E s \in AllStreams : st[s].kind # "none"
    /\ IF \E s \in AllStreams : st[s].notify
       THEN /\ st' = [s \in AllStreams |->
                        IF st[s].notify THEN [st[s] EXCEPT !.sigChan = 1] ELSE st[s]]
            /\ UNCHANGED proc
       ELSE /\ proc' = "killed"
            /\ UNCHANGED st
    /\ UNCHANGED <<parseVars, syncVars>>

\* for sig := range sigChan: the watcher receives a signal
WatcherReceive(s) ==
    /\ Running
    /\ st[s].wpc = "wait"
    /\ st[s].sigChan > 0
    /\ st' = [st EXCEPT ![s].sigChan = 0, ![s].wpc = "connClose"]
    /\ UNCHANGED <<parseVars, proc, syncVars>>

\* conn.Close()
WatcherCloseConn(s) ==
    /\ Running
    /\ st[s].wpc = "connClose"
    /\ st' = [st EXCEPT ![s].conn = "closed", ![s].wpc = "chanClose"]
    /\ nOpen' = IF st[s].conn = "open" THEN nOpen - 1 ELSE nOpen
    /\ UNCHANGED <<parseVars, proc, sop, cur, spc, sargs, nr, closeQ, sres, subres, conns, closeLog,
                   reqs, nCalls>>

\* close(eventChan): panics when the channel is closed already
WatcherCloseChan(s) ==
    /\ Running
    /\ st[s].wpc = "chanClose"
    /\ IF st[s].chClosed
       THEN /\ st' = [st EXCEPT ![s].closeCalls = @ + 1, ![s].wpc = "panic"]
            /\ proc' = "panic"
       ELSE /\ st' = [st EXCEPT ![s].closeCalls = @ + 1, ![s].chClosed = TRUE,
                                ![s].wpc = "exit"]
            /\ UNCHANGED proc
    /\ UNCHANGED <<parseVars, syncVars>>

\* os.Exit(0)
WatcherExit(s) ==
    /\ Running
    /\ st[s].wpc = "exit"
    /\ proc' = "exit0"
    /\ st' = [st EXCEPT ![s].wpc = "exited"]
    /\ UNCHANGED <<parseVars, syncVars>>

\* the consumer receives from the channel: a buffered unit, or, on a closed and
\* empty channel, the end of the stream
Receive(s) ==
    /\ Running
    /\ st[s].kind # "none"
    /\ ~st[s].eos
    /\ IF st[s].ch # <<>>
       THEN st' = [st EXCEPT ![s].recv = Append(@, Head(st[s].ch)), ![s].ch = Tail(@)]
       ELSE /\ st[s].chClosed
            /\ st' = [st EXCEPT ![s].eos = TRUE]
    /\ UNCHANGED <<parseVars, proc, syncVars>>

----------------------------------------------------------------------------
(* ParseURL *)

\* A connection string is a sequence of pieces: the characters ":" and "/", which
\* make up the separator, and words without them: "http", which ParseURL maps,
\* and another word "x". ParseURL also produces the words "unix" and "tcp".
UrlPieces == {"http", "x", ":", "/"}

Urls == UNION { SeqsOf(UrlPieces, n) : n \in 0..MaxUrlLen }

\* "://"
SchemeSep == <<":", "/", "/">>

\* strings.Index(s, sep), counted from 1; 0 when sep does not occur
Index(s, sep) ==
    LET at == { i \in 1..(Len(s) - Len(sep) + 1) : SubSeq(s, i, i + Len(sep) - 1) = sep }
    IN  IF at = {} THEN 0 ELSE CHOOSE i \in at : \A j \in at : i <= j

\* strings.Split(s, sep): the pieces of s between all the occurrences of sep,
\* found left to right without overlap
RECURSIVE Split(_, _)
Split(s, sep) ==
    LET i == Index(s, sep)
    IN  IF i = 0
        THEN <<s>>
        ELSE <<SubSeq(s, 1, i - 1)>> \o Split(SubSeq(s, i + Len(sep), Len(s)), sep)

ParseURL(u) ==
    LET arr == Split(u, SchemeSep)
    IN  IF Len(arr) = 1
        THEN [proto |-> <<"unix">>, addr |-> arr[1]]
        ELSE [proto |-> IF arr[1] = <<"http">> THEN <<"tcp">> ELSE arr[1], addr |-> arr[2]]

\* ParseURL has not been called
Unparsed == [done |-> FALSE, proto |-> <<>>, addr |-> <<>>]

\* ParseURL(url) is called and returns
Parse ==
    /\ ~parsed.done
    /\ parsed' = [done |-> TRUE, proto |-> ParseURL(url).proto, addr |-> ParseURL(url).addr]
    /\ UNCHANGED <<url, syncVars, streamVars>>

----------------------------------------------------------------------------
(* Specifications *)

Init ==
    /\ sop = "idle"
    /\ cur = "idle"
    /\ spc = "idle"
    /\ sargs = NoArgs
    /\ nr = NoNr
    /\ closeQ = <<>>
    /\ sres = NoRes
    /\ subres = NoRes
    /\ conns = <<>>
    /\ closeLog = <<>>
    /\ reqs = <<>>
    /\ nOpen = 0
    /\ nCalls = 0
    /\ st = [s \in AllStreams |-> StreamIdle]
    /\ proc = "running"
    /\ url = <<>>
    /\ parsed = Unparsed

Next ==
    \/ /\ spc \in {"idle", "done"}
       /\ \E op \in SyncOps : \E a \in ArgSets(op) : Call(op, a)
    \/ /\ spc = "request"
       /\ \E dialOk \in BOOLEAN, doOk \in BOOLEAN, status \in Statuses :
                Request(dialOk, doOk, status)
    \/ \E ok \in BOOLEAN, id \in Ids : Decode(ok, id)
    \/ Close
    \/ Return

Spec == Init /\ [][Next]_vars

\* the response bodies tried: the short ones, and the long one when burst
Bodies(kind, burst) ==
    ShortBodies(kind, MaxUnits) \cup (IF burst THEN {Burst(BurstLen)} ELSE {})

\* the caller starts stream s
CallStep(s) ==
    \/ GetEvents(s)
    \/ \E id \in Names, tail \in Tails : ContainerLogs(s, id, tail)

\* the steps of the producer goroutine of stream s
ProducerStep(s, burst) ==
    \/ /\ st[s].ppc = "open"
       /\ \E dialOk \in BOOLEAN, doOk \in BOOLEAN, status \in Statuses,
             b \in Bodies(st[s].kind, burst) :
                Open(s, dialOk, doOk, status, b)
    \/ Notify(s)
    \/ \E readFails \in BOOLEAN : Read(s, readFails)
    \/ LogErr(s)
    \/ Send(s)
    \/ DeferredClose(s)

\* the steps of the watcher goroutine of stream s
WatcherStep(s) ==
    \/ WatcherReceive(s)
    \/ WatcherCloseConn(s)
    \/ WatcherCloseChan(s)
    \/ WatcherExit(s)

\* one stream, its consumer, and signals at any moment
StreamNext ==
    \/ CallStep(1)
    \/ ProducerStep(1, TRUE)
    \/ WatcherStep(1)
    \/ Receive(1)
    \/ Signal

StreamSpec == Init /\ [][StreamNext]_vars

\* the same on the short bodies
FairNext ==
    \/ CallStep(1)
    \/ ProducerStep(1, FALSE)
    \/ WatcherStep(1)
    \/ Receive(1)
    \/ Signal

\* a goroutine that can run is run: the producer, the watcher, and a consumer that
\* keeps receiving; nothing makes a signal arrive
FairStreamSpec ==
    /\ Init
    /\ [][FairNext]_vars
    /\ WF_vars(ProducerStep(1, FALSE))
    /\ WF_vars(WatcherStep(1))
    /\ WF_vars(Receive(1))

\* the producer goroutine of stream s on bodies of at most MultiUnits units
MultiProducerStep(s) ==
    \/ /\ st[s].ppc = "open"
       /\ \E dialOk \in BOOLEAN, doOk \in BOOLEAN, status \in Statuses,
             b \in ShortBodies(st[s].kind, MultiUnits) :
                Open(s, dialOk, doOk, status, b)
    \/ Notify(s)
    \/ \E readFails \in BOOLEAN : Read(s, readFails)
    \/ LogErr(s)
    \/ Send(s)
    \/ DeferredClose(s)

\* the steps of stream s: its caller, producer, watcher and consumer
MultiStep(s) ==
    \/ CallStep(s)
    \/ MultiProducerStep(s)
    \/ WatcherStep(s)
    \/ Receive(s)

\* several streams open at once in one process, and signals at any moment
MultiNext ==
    \/ \E s \in AllStreams : MultiStep(s)
    \/ Signal

MultiSpec == Init /\ [][MultiNext]_vars

\* ParseURL on any connection string of at most MaxUrlLen pieces
ParseInit ==
    /\ sop = "idle"
    /\ cur = "idle"
    /\ spc = "idle"
    /\ sargs = NoArgs
    /\ nr = NoNr
    /\ closeQ = <<>>
    /\ sres = NoRes
    /\ subres = NoRes
    /\ conns = <<>>
    /\ closeLog = <<>>
    /\ reqs = <<>>
    /\ nOpen = 0
    /\ nCalls = 0
    /\ st = [s \in AllStreams |-> StreamIdle]
    /\ proc = "running"
    /\ url \in Urls
    /\ parsed = Unparsed

ParseNext == Parse

ParseSpec == ParseInit /\ [][ParseNext]_vars

----------------------------------------------------------------------------
(* Claims about the synchronous operations, under Spec *)

OkStatuses == {200, 201, 204}

Last(s) == s[Len(s)]

\* C1: whenever newRequest returned a connection to a synchronous operation, that
\* connection is closed at most once at any time, and exactly once by the time the
\* operation returns, whether the decode step succeeded or failed.
C1_ConnClosedOnce ==
    \A c \in 1..Len(conns) :
        conns[c].returned =>
            /\ conns[c].closes <= 1
            /\ (spc \in {"ret", "done"} \/ c < Len(conns)) =>
                    (conns[c].closes = 1 /\ ~conns[c].open)

\* a decode failure in FetchContainer, its connection closed once, the call returned
C1_Witness ==
    /\ spc = "done"
    /\ sop = "FetchContainer"
    /\ sres.err = Err("decoding")
    /\ Len(conns) = 1
    /\ conns[1].returned
    /\ conns[1].closes = 1

\* C2: newRequest returns a stream and a connection if and only if the status it
\* read is 200, 201 or 204; for any other status, listed in the map or not, it
\* returns an error carrying that status, no stream and no connection.
C2_StatusAllowList ==
    reqs # <<>> =>
        LET s == Last(reqs).status
        IN /\ (nr.stream /\ nr.conn # 0) <=> s \in OkStatuses
           /\ (s # 0 /\ s \notin OkStatuses) =>
                    (nr.err = StatusErr(s) /\ ~nr.stream /\ nr.conn = 0)
           /\ s \in OkStatuses => nr.err = NoErr

\* the unlisted status 418 rejected with an error that carries it
C2_Witness ==
    /\ reqs # <<>>
    /\ Last(reqs).status = 418
    /\ nr.err = StatusErr(418)
    /\ ~nr.stream
    /\ nr.conn = 0

\* C3: when the newRequest call of a synchronous operation fails, the operation
\* returns that same error to its caller.
C3_RequestErrorReturned ==
    (spc \in {"ret", "done"} /\ nr.err # NoErr) =>
        /\ subres.err = nr.err
        /\ spc = "done" => sres.err = nr.err

\* C3 for every operation but PullImage
C3_ExceptPullImage ==
    (spc \in {"ret", "done"} /\ nr.err # NoErr /\ cur # "PullImage") =>
        /\ subres.err = nr.err
        /\ spc = "done" => sres.err = nr.err

\* C4: the request of CreateContainer carries the value of the specification's
\* Name field in the name query parameter and has no Name field in its body; with
\* no Name field there is no name parameter and the body is the specification.
C4_NameMovedToQuery ==
    \A i \in 1..Len(reqs) :
        reqs[i].op = "CreateContainer" =>
            IF "Name" \in DOMAIN sargs.given
            THEN /\ reqs[i].uri.query = <<"name=", sargs.given["Name"]>>
                 /\ "Name" \notin DOMAIN reqs[i].body.m
            ELSE /\ reqs[i].uri.query = <<>>
                 /\ reqs[i].body.m = sargs.given

\* what the code does for C4: the parameter is there with an empty value
C4_NameParameterEmpty ==
    \A i \in 1..Len(reqs) :
        reqs[i].op = "CreateContainer" =>
            IF "Name" \in DOMAIN sargs.given
            THEN /\ reqs[i].uri.query = <<"name=", "">>
                 /\ "Name" \notin DOMAIN reqs[i].body.m
            ELSE /\ reqs[i].uri.query = <<>>
                 /\ reqs[i].body.m = sargs.given

----------------------------------------------------------------------------
(* Claims about the streaming operations, under StreamSpec and FairStreamSpec *)

IsPrefix(p, q) == Len(p) <= Len(q) /\ \A i \in 1..Len(p) : p[i] = q[i]

\* the stream got its response
Opened(s) == st[s].rbody = "open"

\* every unit of the body is one the reader delivers
WellFormed(s) == \A i \in 1..Len(st[s].body) : st[s].body[i] \in {"ok", "partial"}

AllUnits(s) == [i \in 1..Len(st[s].body) |-> i]

\* the watcher of s has not received a signal
NoSignalTaken(s) == st[s].wpc \in {"none", "wait"}

\* C5: for a body of well-formed units U1..Un, at any consumer pace, the consumer
\* has at every moment received a prefix of U1..Un, each once and in order, and
\* when it sees the end of a stream that no signal cut short it has received
\* exactly U1..Un.
C5_StreamOrder ==
    \A s \in AllStreams :
        (Opened(s) /\ WellFormed(s)) =>
            /\ IsPrefix(st[s].recv, AllUnits(s))
            /\ (st[s].eos /\ NoSignalTaken(s)) => st[s].recv = AllUnits(s)

\* three events received in order, then the end of the stream
C5_Witness ==
    /\ st[1].kind = "events"
    /\ st[1].body = <<"ok", "ok", "ok">>
    /\ st[1].recv = <<1, 2, 3>>
    /\ st[1].eos
    /\ NoSignalTaken(1)

\* C6: in every interleaving of producer, watcher and consumer the channel is
\* closed at most once and no unit is sent on it after it was closed.
C6_ChannelClosedOnce ==
    \A s \in AllStreams :
        /\ st[s].closeCalls <= 1
        /\ ~st[s].sentOnClosed

\* C7: once the response body is at its end, a last unit that is incomplete or
\* malformed included, the producer loop ends and the channel is closed, and a
\* consumer that keeps receiving sees the end of the stream.
C7_EndOfInputCloses ==
    (Opened(1) /\ st[1].rpos = Len(st[1].body)) ~> (st[1].eos \/ proc # "running")

\* C7 for ContainerLogs alone
C7_LogsEndOfInputCloses ==
    (Opened(1) /\ st[1].kind = "logs" /\ st[1].rpos = Len(st[1].body))
        ~> (st[1].eos \/ proc # "running")

\* a malformed unit between two valid events
OneBadBetween(s, bad) ==
    /\ st[s].kind = "events"
    /\ Opened(s)
    /\ Len(st[s].body) = 3
    /\ st[s].body[1] = "ok"
    /\ st[s].body[2] \in bad
    /\ st[s].body[3] = "ok"

\* C8: in GetEvents, for a body of a valid event, a malformed unit and a valid
\* event, the decode error is logged once, the consumer receives the two valid
\* events in order and nothing else, and all of them by the end of the stream.
C8_DecodeSkip ==
    \A s \in AllStreams :
        OneBadBetween(s, {"badtype", "badsyntax"}) =>
            /\ IsPrefix(st[s].recv, <<1, 3>>)
            /\ NoSignalTaken(s) => st[s].nLogged <= 1
            /\ (st[s].eos /\ NoSignalTaken(s)) => st[s].recv = <<1, 3>>

\* C8 where the malformed unit is a complete JSON value of the wrong shape
C8_TypeErrorSkipped ==
    \A s \in AllStreams :
        OneBadBetween(s, {"badtype"}) =>
            /\ IsPrefix(st[s].recv, <<1, 3>>)
            /\ NoSignalTaken(s) => st[s].nLogged <= 1
            /\ (st[s].eos /\ NoSignalTaken(s)) => st[s].recv = <<1, 3>>

\* C9: once the watcher has received a signal it closes the connection, then the
\* channel, then exits the process normally, in whatever state the stream is: the
\* process ends in no other way, and when it has exited both are closed.
C9_SignalShutdown ==
    \A s \in AllStreams :
        ~NoSignalTaken(s) =>
            /\ proc \in {"running", "exit0"}
            /\ st[s].wpc \in {"chanClose", "exit", "exited"} => st[s].conn = "closed"
            /\ st[s].wpc \in {"exit", "exited"} => st[s].chClosed
            /\ proc = "exit0" => st[s].wpc = "exited"

\* C10: the channel never holds more than 100 units; while it holds 100 (and is
\* open) the producer stays at its publish with the same unit; and the producer
\* leaves the publish of an open channel only by appending that unit to it.
C10_Backpressure ==
    /\ [](\A s \in AllStreams : Len(st[s].ch) <= ChanCap(st[s].kind))
    /\ [][\A s \in AllStreams :
            (st[s].ppc = "send" /\ ~st[s].chClosed) =>
                /\ Len(st[s].ch) >= ChanCap(st[s].kind) =>
                        (st'[s].ppc = "send" /\ st'[s].pend = st[s].pend)
                /\ st'[s].ppc # "send" => st'[s].ch = Append(st[s].ch, st[s].pend)]_vars

\* 100 units undelivered and the producer blocked publishing the next one
C10_Witness ==
    /\ Len(st[1].ch) = ChanCap(st[1].kind)
    /\ st[1].ppc = "send"
    /\ st[1].pend = ChanCap(st[1].kind) + 1
    /\ ~st[1].chClosed

\* the blocked unit delivered to the consumer, after the hundred before it
C10_Delivered ==
    /\ Len(st[1].recv) = ChanCap(st[1].kind) + 1
    /\ st[1].recv[ChanCap(st[1].kind) + 1] = ChanCap(st[1].kind) + 1
    /\ st[1].eos

\* the producer of s is past its newRequest call, which returned an error
OpenFailed(s) == st[s].ppc \in {"defer", "done", "panic"} /\ ~Opened(s)

\* C11: when opening the stream fails, the stream never enters Streaming: no unit
\* is published, no signal watcher is installed, the channel is closed empty and
\* once, and what the consumer then receives is the end of the stream.
C11_OpenFailureClosesEmpty ==
    \A s \in AllStreams :
        /\ (st[s].kind # "none" /\ ~Opened(s)) =>
                /\ st[s].ppc \in {"open", "defer", "done"}
                /\ st[s].ch = <<>>
                /\ st[s].pend = 0
                /\ st[s].recv = <<>>
                /\ ~st[s].notify
                /\ st[s].wpc = "none"
                /\ ~st[s].sentOnClosed
        /\ OpenFailed(s) =>
                /\ st[s].closeCalls = (IF st[s].ppc = "done" THEN 1 ELSE 0)
                /\ st[s].chClosed <=> st[s].ppc = "done"
                /\ st[s].eos => st[s].ppc = "done"

\* a rejected status: the channel closed once, empty, and the consumer at the end
C11_Witness ==
    /\ st[1].kind = "events"
    /\ OpenFailed(1)
    /\ st[1].conn = "open"
    /\ st[1].closeCalls = 1
    /\ st[1].eos
    /\ st[1].recv = <<>>

\* RunContainer's CreateContainer has returned an error
CreateFailed ==
    /\ sop = "RunContainer"
    /\ cur = "CreateContainer"
    /\ spc \in {"ret", "done"}
    /\ subres.err # NoErr

StartRequested == \E i \in 1..Len(reqs) : reqs[i].op = "StartContainer"

\* C12: in RunContainer, if CreateContainer fails then StartContainer is never
\* invoked (no start request is issued) and RunContainer returns the empty
\* identifier together with Create's error.
C12_CreateFailureStopsRun ==
    /\ [](CreateFailed =>
            /\ ~StartRequested
            /\ Len(reqs) = 1
            /\ spc = "done" => sres = [val |-> "", err |-> subres.err])
    /\ [][(CreateFailed /\ spc = "ret") =>
            /\ spc' = "done"
            /\ cur' = "CreateContainer"
            /\ reqs' = reqs
            /\ sres' = [val |-> "", err |-> subres.err]]_vars

\* Create's response did not decode: RunContainer returned "" and the decode error
C12_Witness ==
    /\ CreateFailed
    /\ spc = "done"
    /\ reqs[1].status = 201
    /\ sres = [val |-> "", err |-> Err("decoding")]

\* the "HostConfig" sub-value of a container specification, nil when it has none
HostConfigOf(container) ==
    IF "HostConfig" \in DOMAIN container THEN container["HostConfig"] ELSE Nil

\* RunContainer's StartContainer has returned an error
StartFailed ==
    /\ sop = "RunContainer"
    /\ cur = "StartContainer"
    /\ spc \in {"ret", "done"}
    /\ subres.err # NoErr

\* C13: in RunContainer, if CreateContainer succeeds and StartContainer fails,
\* RunContainer returns Start's error, issues no remove or other rollback request
\* (the requests are Create's and Start's and nothing else), and the start request
\* is issued for the identifier Create returned with the HostConfig sub-value of
\* the original specification as its body.
C13_StartFailureNoRollback ==
    /\ (sop = "RunContainer" /\ cur = "StartContainer" /\ spc = "request") =>
            /\ subres.err = NoErr
            /\ sargs.name = subres.val
            /\ Len(reqs) = 1
    /\ StartFailed =>
            /\ Len(reqs) = 2
            /\ reqs[1].op = "CreateContainer"
            /\ reqs[1].status \in OkStatuses
            /\ reqs[2].op = "StartContainer"
            /\ reqs[2].method = "POST"
            /\ reqs[2].uri = [path |-> <<"/containers/", sargs.name, "/start">>, query |-> <<>>]
            /\ reqs[2].body = ValBody(HostConfigOf(sargs.given))
            /\ subres.err = nr.err
            /\ spc = "done" => sres = [val |-> sargs.name, err |-> nr.err]

\* the daemon rejected the start of the container it created from a specification
\* with a host configuration
C13_Witness ==
    /\ StartFailed
    /\ spc = "done"
    /\ "HostConfig" \in DOMAIN sargs.given
    /\ sargs.given["HostConfig"] # Nil
    /\ reqs[2].status = 404
    /\ sres = [val |-> "id1", err |-> StatusErr(404)]

\* the stream s ended because its body reached the end of input
EndedAtEndOfInput(s) ==
    /\ Opened(s)
    /\ NoSignalTaken(s)
    /\ st[s].ppc = "done"
    /\ st[s].chClosed

\* C16: when a stream terminates because the response body reached end of input,
\* its connection and response stream have been closed by the time the channel
\* is closed: no open connection is left behind by a finished stream.
C16_StreamEndClosesConn ==
    \A s \in AllStreams :
        EndedAtEndOfInput(s) => st[s].conn = "closed" /\ st[s].rbody = "closed"

\* C17: in every operation that closes both, the response stream is closed
\* before or at the same step as the connection, never after it: every close of
\* a connection is preceded by the close of its response stream (the Close calls
\* of an operation run one after the other, none at the same step).
C17_BodyClosedBeforeConn ==
    \A j \in 1..Len(closeLog) :
        closeLog[j][2] = "conn" =>
            \E i \in 1..(j - 1) : closeLog[i] = <<closeLog[j][1], "body">>

\* the newRequest calls that dialed a connection
Dialed == { i \in 1..Len(reqs) : reqs[i].opened }

\* newRequest gives up before net.Dial, or at it
FailsBeforeExchange(q) == ~Marshals(q.body) \/ ~UriParses(q.uri)

\* C18 as stated: every call of newRequest opens exactly one connection, a call
\* that fails before dialing included.
C18_OneConnPerCall ==
    /\ Len(conns) = Len(reqs)
    /\ \A i \in 1..Len(reqs) : reqs[i].opened

\* C18, amended: every call of newRequest opens at most one connection, and none
\* when it fails before the dial (body not serializable, URI not parseable) or at
\* it; a call that got a response opened one. Connections are never shared: there
\* are as many as calls that dialed and the one returned is the newest. Each
\* non-composite operation calls newRequest once, RunContainer once for Create
\* and once more for Start.
C18_AtMostOneConnPerCall ==
    /\ Len(conns) = Cardinality(Dialed)
    /\ \A i \in 1..Len(reqs) :
            /\ FailsBeforeExchange(reqs[i]) => ~reqs[i].opened
            /\ reqs[i].status # 0 => reqs[i].opened
    /\ nr.conn # 0 => nr.conn = Len(conns) /\ conns[nr.conn].returned
    /\ Len(reqs) <= (IF sop = "RunContainer" THEN 2 ELSE 1)
    /\ spc \in {"decode", "close", "ret", "done"} =>
            /\ Len(reqs) >= 1
            /\ reqs[Len(reqs)].op = cur
    /\ \A i \in 1..Len(reqs) : \A j \in 1..Len(reqs) :
            reqs[i].op = reqs[j].op => i = j

\* RunContainer dialed for Create, and the dial of its Start was refused: two
\* calls of newRequest, one connection
C18_Witness ==
    /\ sop = "RunContainer"
    /\ spc = "done"
    /\ Len(reqs) = 2
    /\ Dialed = {1}
    /\ Len(conns) = 1

\* C19: when newRequest fails after the dial succeeded, the connection it opened
\* is closed before newRequest returns, so after failed calls no connection is
\* open.
C19_FailedRequestClosesConn ==
    /\ \A c \in 1..Len(conns) : ~conns[c].returned => ~conns[c].open
    /\ (spc \in {"ret", "done"} /\ nr.err # NoErr) => nOpen = 0

\* signal.Notify is in effect for s and its watcher goroutine exists
WatcherInstalled(s) == st[s].notify

\* C14: with N concurrently open streams N signal watchers are installed, and on
\* an interrupt signal every one of them fires: each stream's connection and
\* channel are closed by its own watcher before the process terminates.
C14_AllWatchersFire ==
    /\ \A s \in AllStreams :
            (Opened(s) /\ st[s].ppc \notin {"open", "notify"}) => WatcherInstalled(s)
    /\ proc = "exit0" =>
            \A s \in AllStreams :
                WatcherInstalled(s) =>
                    /\ st[s].wpc \in {"exit", "exited"}
                    /\ st[s].conn = "closed"
                    /\ st[s].chClosed

\* the scheme ParseURL reports for the text left of the separator
SchemeOf(left) == IF left = <<"http">> THEN <<"tcp">> ELSE left

\* C15: ParseURL splits the connection string at the first occurrence of "://":
\* with no separator it returns ("unix", whole string); with a separator it
\* returns the text left of the first separator as the scheme, "http" mapped to
\* "tcp", and everything right of the first separator as the endpoint, also when
\* the string contains further occurrences of "://".
C15_SplitAtFirstSeparator ==
    parsed.done =>
        LET i == Index(url, SchemeSep)
        IN  IF i = 0
            THEN parsed.proto = <<"unix">> /\ parsed.addr = url
            ELSE /\ parsed.proto = SchemeOf(SubSeq(url, 1, i - 1))
                 /\ parsed.addr = SubSeq(url, i + Len(SchemeSep), Len(url))

====
